---- MODULE Spec2Model ----
(***************************************************************************)
(* Session lifecycle and client resilience core of the keiba prediction    *)
(* frontend: the auth store (useAuthStore.ts), the axios request pipeline  *)
(* (lib/api/client.ts), the error handler (utils/errorHandler.ts), the     *)
(* error monitor (utils/errorMonitor.ts), the error boundary and the       *)
(* process entry point (main.tsx).                                         *)
(*                                                                         *)
(* Time is counted in units of 1000 ms (every delay in the code is a       *)
(* multiple of 1000 ms).  Tokens are numbered by the token response that   *)
(* produced them; 0 stands for null.                                       *)
(***************************************************************************)
EXTENDS Integers, Sequences, FiniteSets, TLC

\* ---------------------------------------------------------------- bounds
MaxReq == 3
MaxGen == 2
ExpiresIn == 3600
StartTime == 20
Horizon == 10
ShortHorizon == 2
MaxLogged == 7
MaxProcs == 2
MaxRestartProcs == 4
MaxLogCalls == 103
MaxNest == 3
ExpiryHorizon == 3305
LoginWindow == 2
ExpiryChoices == {299, 301, ExpiresIn}
RestartHorizon == 5
HandlerHorizon == 16
MaxHandled == 1

\* ------------------------------------------------------ program constants
expirySkew == 300
maxLogSize == 100
maxReloadAttempts == 3
reloadCooldown == 5
errorThreshold == 5
errorWindow == 10
handleErrorDelay == 1
boundaryDelay == 2
loadResetWindow == 5
loadResetAttempts == 3

\* ---------------------------------------------------------------- state
VARIABLES
  now,            \* Date.now()
  accessToken,    \* AuthState.accessToken   (0 = null)
  refreshToken,   \* AuthState.refreshToken  (0 = null)
  tokenExpiresAt, \* AuthState.tokenExpiresAt (0 = null)
  configToken,    \* state.accessToken of the snapshot captured by tokenGetter
  reqs,           \* requests sent through apiClient, by number
  nreq,           \* number of requests issued so far
  nextGen,        \* number of the next token response of the backend
  issued,         \* history: time and expires_in of the last setTokens
  loggedOut,      \* history: a logout() has completed and no login has followed
  errorCount,     \* ErrorMonitor.errorCount
  errorTimestamps,\* ErrorMonitor.errorTimestamps; each entry also remembers whether
                  \* the recorded message was classified critical (history)
  nextCleanup,    \* next firing of the monitor's setInterval(cleanupOldErrors)
  errorLog,       \* ErrorHandler.errorLog, each ErrorInfo by its serial number
  nLogged,        \* ErrorInfo records created by this process instance
  reloadCount,    \* ErrorHandler.reloadCount
  lastReloadTime, \* ErrorHandler.lastReloadTime
  sessAttempt,    \* sessionStorage error_recovery_attempt (NoItem = absent)
  sessTime,       \* sessionStorage error_recovery_time    (NoItem = absent)
  timers,         \* due times of the pending setTimeout(() => errorHandler.recover())
  ebMounted,      \* the ErrorBoundary instance is mounted
  ebHasError,     \* ErrorBoundary.state.hasError
  ebAttempted,    \* ErrorBoundary.state.recoveryAttempted
  ebTimer,        \* due time of ErrorBoundary.recoveryTimeoutId's timer (NoItem = none)
  navPending,     \* window.location.reload() was called, the new document is not there yet
  loadPending,    \* the window load event of this process instance has not fired yet
  procs,          \* process instances started so far
  critSeen,       \* history: errors this instance captured that count as critical,
                  \* all paths, counted up to errorThreshold
  critTimes,      \* history: capture times of the critical errors this instance
                  \* captured less than errorWindow before its last one; empty
                  \* once denseSeen holds
  denseSeen,      \* history: this instance has captured errorThreshold critical
                  \* errors less than errorWindow apart
  burstReloads,   \* history: reload() calls of the last capture handler, see Capture
  reloadHist,     \* history: the last two window.location.reload() calls
  restartsSinceReset, \* history: reload() calls since the last resetReloadCount(),
                      \* over all process instances, counted up to maxReloadAttempts + 1
  prodBuild,      \* import.meta.env.PROD (import.meta.env.DEV is its negation)
  forwards,       \* fetch('/api/v1/errors') calls of sendErrorToServer in flight
  diagEmitted,    \* history: the own lines this instance has written, see DiagText
  diagRecorded,   \* history: the own lines the monitor made an ErrorInfo of
  nonCritFed,     \* history: the monitor pushed a timestamp for a message that
                  \* isCriticalError / isCriticalWarning does not classify critical
  isMonitoring,   \* ErrorMonitor.isMonitoring: console.error / console.warn are wrapped
  misdelivered,   \* history: in some handler the console.error / console.warn calls
                  \* made and the calls of the original console functions differed
  reloadUnsaved,  \* history: reload() was called while sessionStorage did not hold
                  \* the handler's reloadCount and lastReloadTime
  dropPending     \* history: "dropped" when recover() has returned in its cooldown
                  \* branch and no error has been logged since, "none" otherwise

authVars == <<accessToken, refreshToken, tokenExpiresAt, configToken, reqs, nreq, nextGen,
              issued, loggedOut>>

recVars == <<errorCount, errorTimestamps, nextCleanup, errorLog, nLogged, reloadCount,
             lastReloadTime, sessAttempt, sessTime, timers, ebMounted, ebHasError, ebAttempted,
             ebTimer, navPending, loadPending, procs, critSeen, critTimes, denseSeen,
             burstReloads, reloadHist, restartsSinceReset, prodBuild, forwards,
             diagEmitted, diagRecorded, nonCritFed, isMonitoring, misdelivered,
             reloadUnsaved, dropPending>>

vars == <<now, authVars, recVars>>

Null == 0

Kinds == {"api", "refresh", "logout"}

\* A request sent through apiClient.  kind "refresh": the request of one
\* refreshAccessToken() call; kind "logout": the notification of one logout()
\* call.  parent: the request whose response interceptor awaits this refresh
\* (0: called directly).  History fields: storeTok (the store's access token
\* when the request was last sent), sends, refreshes (tokenRefresher() calls made
\* for it), n401, nOther (error responses other than 401), err, seen (what the caller of the operation got), peers (the
\* refresh calls still running when this one started), credAbsentAtEnd, got
\* (the token response a successful refresh stored).
FreeReq ==
  [kind |-> "none", pc |-> "free", retry |-> FALSE, auth |-> Null, storeTok |-> Null,
   body |-> Null, parent |-> 0, sends |-> 0, refreshes |-> 0, n401 |-> 0,
   nOther |-> 0, err |-> "none", seen |-> "pending", peers |-> {},
   credAbsentAtEnd |-> FALSE, got |-> Null]

\* The store fields as one value, so that a handler's calls can be sequenced.
Store ==
  [at |-> accessToken, rt |-> refreshToken, exp |-> tokenExpiresAt, reqs |-> reqs,
   issued |-> issued, out |-> loggedOut]

CredAbsent(s) == s.at = Null /\ s.rt = Null /\ s.exp = Null

calculateExpiresAt(expiresIn) == now + expiresIn

\* Variant of setTokens that writes the access token alone.
setTokensAccessOnly(s, gen, e) == [s EXCEPT !.at = gen]

\* setTokens: all three fields from one token response (token.expires_in = e).
setTokensFor(s, gen, e) ==
  [s EXCEPT !.at = gen, !.rt = gen, !.exp = calculateExpiresAt(e),
            !.issued = [t |-> now, e |-> e]]

setTokens(s, gen) == setTokensFor(s, gen, ExpiresIn)

\* Variant of isTokenExpired that is late by one time unit.
isTokenExpiredLate(s) ==
  IF s.exp = Null THEN TRUE ELSE now > s.exp - expirySkew

\* isTokenExpired: no expiry stored, or the expiry less the margin is reached.
isTokenExpired(s) ==
  IF s.exp = Null THEN TRUE ELSE now >= s.exp - expirySkew

\* Variant of isAuthenticated that looks at the stored tokens only.
isAuthenticatedStored(s) == s.at # Null /\ s.rt # Null

\* isAuthenticated
isAuthenticated(s) == s.at # Null /\ s.rt # Null /\ ~isTokenExpired(s)

\* Variant of clearTokens that forgets the access token only.
clearTokensKeepRefresh(s) == [s EXCEPT !.at = Null, !.exp = Null]

\* clearTokens: all fields null.
clearTokens(s) == [s EXCEPT !.at = Null, !.rt = Null, !.exp = Null]

\* tokenGetter: () => state.accessToken, state being the snapshot taken when
\* configureAuth was called.
tokenGetter == configToken

\* The tokenSetter given to configureAuth: with a token, the access token
\* alone is replaced when it differs; with null, clearTokens.
tokenSetter(s, token) ==
  IF token # Null
  THEN IF s.at # token THEN [s EXCEPT !.at = token] ELSE s
  ELSE clearTokens(s)

\* tokenSetter?.(null), the only call the response interceptor makes.
tokenSetterNull(s) == tokenSetter(s, Null)

\* Request interceptor: attach the token the getter returns, if any.
attach(header) == IF tokenGetter # Null THEN tokenGetter ELSE header

\* ------------------------------------------------ request pipeline helpers

Mark(s, r, pc, e, seen) ==
  [s EXCEPT !.reqs[r].pc = pc, !.reqs[r].err = e, !.reqs[r].seen = seen,
            !.reqs[r].credAbsentAtEnd = CredAbsent(s)]

\* Variant of logoutEnd without the try/catch around the notification.
logoutEndNoCatch(s, r, pc, e) ==
  IF pc = "fail" THEN Mark(s, r, pc, e, "rejected")
  ELSE Mark(clearTokens(s), r, pc, e, "resolved")

\* Variant of logoutEnd that fails when there was nothing to notify.
logoutEndStrict(s, r, pc, e) ==
  IF s.reqs[r].sends = 0 THEN Mark(s, r, "fail", "norefresh", "rejected")
  ELSE Mark(clearTokens(s), r, pc, e, "resolved")

\* logout() after its notification (if any): a failure is caught and logged,
\* then clearTokens() runs in every case.
logoutEnd(s, r, pc, e) ==
  [Mark(clearTokens(s), r, pc, e, "resolved") EXCEPT !.out = TRUE]

\* refreshAccessToken's catch: clearTokens, rethrow.
refreshCatch(s, r, e) == Mark(clearTokens(s), r, "fail", e, "rejected")

\* The request r was rejected with error e.  For a refresh request this runs
\* refreshAccessToken's catch and then, up the chain, the catch of the response
\* interceptor that awaited it: tokenSetter(null), reject(refreshError).
RECURSIVE Fail(_, _, _)
Fail(s, r, e) ==
  LET q == s.reqs[r] IN
  IF q.kind = "api" THEN Mark(s, r, "fail", e, "rejected")
  ELSE IF q.kind = "logout" THEN logoutEnd(s, r, "fail", e)
  ELSE LET d == refreshCatch(s, r, e)
       IN IF q.parent = 0 THEN d
          ELSE Fail(tokenSetterNull(d), q.parent, "refresh")

\* The request r was answered 2xx.  For a refresh request: setTokens(newToken),
\* then the awaiting interceptor re-attaches the getter's token and resends.
Succeed(s, r, gen) ==
  LET q == s.reqs[r] IN
  IF q.kind = "api" THEN Mark(s, r, "ok", "none", "resolved")
  ELSE IF q.kind = "logout" THEN logoutEnd(s, r, "ok", "none")
  ELSE LET d == [Mark(setTokens(s, gen), r, "ok", "none", "resolved")
                  EXCEPT !.reqs[r].got = gen]
           p == q.parent
       IN IF p = 0 THEN d
          ELSE [d EXCEPT !.reqs[p].pc = "inflight",
                         !.reqs[p].auth = attach(d.reqs[p].auth),
                         !.reqs[p].storeTok = d.at,
                         !.reqs[p].sends = d.reqs[p].sends + 1]

\* The refreshAccessToken() calls that have not settled yet.
Running(s) ==
  {r \in 1..MaxReq : s.reqs[r].kind = "refresh" /\ s.reqs[r].pc \in {"inflight", "awaitRefresh"}}

\* A new request through apiClient: the request interceptor attaches the token.
NewReq(s, kind, parent, body) ==
  [FreeReq EXCEPT !.kind = kind, !.pc = "inflight", !.auth = attach(Null),
                  !.storeTok = s.at, !.body = body, !.parent = parent, !.sends = 1,
                  !.peers = IF kind = "refresh" THEN Running(s) ELSE {}]

\* Variant of ShouldRefresh that reacts to every error status.
ShouldRefreshAny(q, status) == ~q.retry

\* Variant of ShouldRefresh that ignores the _retry flag.
ShouldRefreshNoFlag(q, status) == status = 401

\* Response interceptor's condition for the refresh-and-retry path.
ShouldRefresh(q, status) == status = 401 /\ ~q.retry

\* Response interceptor on an error response for request r.
OnError(s, r, status) ==
  LET q == s.reqs[r]
      e == IF status = 401 THEN "401" ELSE "other"
      n == [s EXCEPT !.reqs[r].n401 = q.n401 + (IF status = 401 THEN 1 ELSE 0),
                     !.reqs[r].nOther = q.nOther + (IF status = 401 THEN 0 ELSE 1)]
  IN IF ShouldRefresh(q, status)
     THEN LET m == [n EXCEPT !.reqs[r].retry = TRUE,
                             !.reqs[r].refreshes = q.refreshes + 1]
          IN IF m.rt = Null
             \* refreshAccessToken throws before its try; the interceptor's catch
             THEN Fail(tokenSetterNull(m), r, "refresh")
             ELSE [m EXCEPT !.reqs[r].pc = "awaitRefresh",
                            !.reqs[nreq + 1] = NewReq(m, "refresh", r, m.rt)]
     ELSE Fail(n, r, e)

Commit(s) ==
  /\ accessToken' = s.at
  /\ refreshToken' = s.rt
  /\ tokenExpiresAt' = s.exp
  /\ reqs' = s.reqs
  /\ issued' = s.issued
  /\ loggedOut' = s.out

Used(s) == Cardinality({r \in 1..MaxReq : s.reqs[r].pc # "free"})

\* ------------------------------------------------------- session actions

\* LoginForm.onSubmit after a successful login: setTokens(token).
Login ==
  /\ nextGen <= MaxGen
  /\ Commit([setTokens(Store, nextGen) EXCEPT !.out = FALSE])
  /\ nextGen' = nextGen + 1
  /\ UNCHANGED <<now, configToken, nreq, recVars>>

\* Any API call made by the UI through apiClient.
ApiCall ==
  /\ nreq < MaxReq
  /\ Commit([Store EXCEPT !.reqs[nreq + 1] = NewReq(Store, "api", 0, Null)])
  /\ nreq' = nreq + 1
  /\ UNCHANGED <<now, configToken, nextGen, recVars>>

\* refreshAccessToken() called directly (ProtectedRoute's effect).
RefreshAccessToken ==
  /\ nreq < MaxReq
  /\ IF refreshToken = Null
     \* thrown before the try: nothing is cleared
     THEN Commit(Mark([Store EXCEPT !.reqs[nreq + 1] =
                         [FreeReq EXCEPT !.kind = "refresh", !.peers = Running(Store)]],
                      nreq + 1, "fail", "norefresh", "rejected"))
     ELSE Commit([Store EXCEPT !.reqs[nreq + 1] =
                    NewReq(Store, "refresh", 0, refreshToken)])
  /\ nreq' = nreq + 1
  /\ UNCHANGED <<now, configToken, nextGen, recVars>>

\* logout(): the notification is sent only when a refresh token is stored.
Logout ==
  /\ nreq < MaxReq
  /\ IF refreshToken = Null
     THEN Commit(logoutEnd([Store EXCEPT !.reqs[nreq + 1] =
                              [FreeReq EXCEPT !.kind = "logout"]],
                           nreq + 1, "ok", "none"))
     ELSE Commit([Store EXCEPT !.reqs[nreq + 1] =
                    NewReq(Store, "logout", 0, refreshToken)])
  /\ nreq' = nreq + 1
  /\ UNCHANGED <<now, configToken, nextGen, recVars>>

\* The backend answers request r with 2xx.
RespondOk ==
  \E r \in 1..MaxReq :
    /\ reqs[r].pc = "inflight"
    /\ reqs[r].kind = "refresh" => nextGen <= MaxGen
    /\ Commit(Succeed(Store, r, nextGen))
    /\ nextGen' = IF reqs[r].kind = "refresh" THEN nextGen + 1 ELSE nextGen
    /\ UNCHANGED <<now, configToken, nreq, recVars>>

\* The backend answers request r with 401.
Respond401 ==
  \E r \in 1..MaxReq :
    /\ reqs[r].pc = "inflight"
    /\ (ShouldRefresh(reqs[r], 401) /\ refreshToken # Null) => nreq < MaxReq
    /\ LET s == OnError(Store, r, 401) IN
       /\ Commit(s)
       /\ nreq' = IF Used(s) > nreq THEN nreq + 1 ELSE nreq
    /\ UNCHANGED <<now, configToken, nextGen, recVars>>

\* The backend answers request r with another error status (5xx, 422); the
\* message of the error, 'Request failed with status code ...', matches no
\* pattern of the monitor.
RespondError ==
  \E r \in 1..MaxReq :
    /\ reqs[r].pc = "inflight"
    /\ Commit(OnError(Store, r, 500))
    /\ UNCHANGED <<now, configToken, nextGen, nreq, recVars>>

\* setTokens(token) at a time close to the start, with any of the lifetimes.
ExpiryLogin ==
  \E e \in ExpiryChoices :
    /\ nextGen <= MaxGen
    /\ now <= StartTime + LoginWindow
    /\ Commit([setTokensFor(Store, nextGen, e) EXCEPT !.out = FALSE])
    /\ nextGen' = nextGen + 1
    /\ UNCHANGED <<now, configToken, nreq, recVars>>

\* clearTokens() called on its own (the configured tokenSetter with null).
ClearTokens ==
  /\ ~CredAbsent(Store)
  /\ Commit(tokenSetterNull(Store))
  /\ UNCHANGED <<now, configToken, nreq, nextGen, recVars>>

\* Time passes while the session store is observed.
TickExpiry ==
  /\ now < StartTime + ExpiryHorizon
  /\ now' = now + 1
  /\ UNCHANGED <<authVars, recVars>>

\* ------------------------------------------------ error handler / monitor

NoItem == -1


\* An error message, by the pattern lists it matches: an ^-anchored ignored
\* pattern, an unanchored ignored pattern, a critical pattern.
Msgs == [ignStart : BOOLEAN, ignAny : BOOLEAN, crit : BOOLEAN]

\* Variant of isCriticalError without the ignored patterns.
isCriticalErrorNoIgnore(msg) == msg.crit

\* ErrorMonitor.isCriticalError: ignored patterns first, then critical ones.
isCriticalError(msg) ==
  IF msg.ignStart \/ msg.ignAny THEN FALSE ELSE msg.crit

\* 'ErrorBoundary caught an error: ' + message: no ^-anchored pattern matches.
Prefixed(msg) == [msg EXCEPT !.ignStart = FALSE]

\* The pattern lists, on messages written as sequences of phrases (lower case,
\* as the patterns are case-insensitive).
AnchoredIgnored == {"error logged:", "recovery", "error monitoring"}

\* (the two button-click log lines, which the source writes in Japanese)
UnanchoredIgnored == {"race selection button clicked", "prediction history button clicked"}

CriticalPhrases ==
  {"uncaught", "unhandled", "referenceerror", "typeerror", "syntaxerror",
   "network error", "failed to fetch", "chunk load error", "loading chunk",
   "script error", "cannot read property", "cannot read properties",
   "is not a function", "is not defined", "is null or undefined"}

WarningPhrases == {"deprecated", "security", "cross-origin", "cors", "mixed content"}

\* What the pattern lists of isCriticalError find in a text.
Features(text) ==
  [ignStart |-> text # <<>> /\ Head(text) \in AnchoredIgnored,
   ignAny   |-> \E i \in 1..Len(text) : text[i] \in UnanchoredIgnored,
   crit     |-> \E i \in 1..Len(text) : text[i] \in CriticalPhrases]

\* ErrorMonitor.isCriticalWarning on a text.
isCriticalWarning(text) == \E i \in 1..Len(text) : text[i] \in WarningPhrases

\* The lines the handler, the monitor and the entry point write themselves.
\* echo: logError's development echo, here of a logged TypeError.
\* forwardFailed: sendErrorToServer's catch after fetch rejected with
\* 'Failed to fetch'; forwardNotOk: the same after a response that is not ok.
DiagText(kind) ==
  CASE kind = "echo"          -> <<"error logged:", "typeerror">>
    [] kind = "tooSoon"       -> <<"recovery", "attempt too soon, skipping...">>
    [] kind = "maxAttempts"   -> <<"max reload attempts", "reached. stopping auto-recovery.">>
    [] kind = "tooMany"       -> <<"too many errors detected", "attempting automatic recovery...">>
    [] kind = "initiated"     -> <<"recovery", "initiated. page will reload...">>
    [] kind = "recoveryFailed" -> <<"recovery", "failed. please refresh the page manually.">>
    [] kind = "started"       -> <<"error monitoring", "started">>
    [] kind = "forwardFailed" -> <<"error sending error to server:", "failed to fetch">>
    [] kind = "forwardNotOk"  -> <<"error sending error to server:", "failed to send error to server">>

\* The timestamps of ts inside the window that ends at t.
InWindow(ts, t) == SelectSeq(ts, LAMBDA x : t - x < errorWindow)

\* The handler's and the monitor's fields as one value, so that the calls of
\* one event handler can be sequenced; calls counts window.location.reload(),
\* reset tells that resetReloadCount() was called, depth counts the console
\* calls the handler is nested in, said lists the console.error / console.warn
\* calls made during the handler and shown the calls of the original
\* console.error / console.warn, drop tells that recover() returned in its
\* cooldown branch, fresh that an error was logged.
Rec ==
  [ec |-> errorCount, ts |-> errorTimestamps, log |-> errorLog, nl |-> nLogged,
   rc |-> reloadCount, lrt |-> lastReloadTime, sa |-> sessAttempt, st |-> sessTime,
   tm |-> timers, calls |-> 0, reset |-> FALSE, fw |-> forwards,
   de |-> diagEmitted, dr |-> diagRecorded, depth |-> 0,
   said |-> <<>>, shown |-> <<>>, unsaved |-> FALSE, drop |-> FALSE, fresh |-> FALSE]

RECURSIVE recordError(_, _)

\* ErrorMonitor.handleConsoleError, called by the console.error wrapper
handleConsoleError(m, msg) ==
  IF isCriticalError(msg) THEN recordError(m, "console.error") ELSE m

\* ErrorMonitor.handleConsoleWarn; w: the message matches isCriticalWarning
handleConsoleWarn(m, w) ==
  IF w THEN recordError(m, "console.warn") ELSE m

\* A console line: its origin ("app" or the kind of an own line, see
\* DiagText), what isCriticalError finds in it, and whether isCriticalWarning
\* matches it.
Line(own, feat, w) == [own |-> own, feat |-> feat, w |-> w]

NoFeatures == [ignStart |-> FALSE, ignAny |-> FALSE, crit |-> FALSE]

\* Variant of the console.error wrapper that keeps critical lines to itself.
consoleErrorSwallow(m, line) ==
  IF isCriticalError(line.feat) THEN handleConsoleError(m, line.feat)
  ELSE [handleConsoleError(m, line.feat) EXCEPT !.shown = Append(@, line)]

\* The wrapper start() installs as console.error: the handler, then the
\* original function with the same arguments.  (isInternalLog is set only
\* inside safeLog / safeError, which make no console.error call.)
consoleErrorWrapper(m, line) ==
  [handleConsoleError(m, line.feat) EXCEPT !.shown = Append(@, line)]

\* The wrapper start() installs as console.warn.
consoleWarnWrapper(m, line) ==
  [handleConsoleWarn(m, line.w) EXCEPT !.shown = Append(@, line)]

\* A call of console.error: the wrapper while monitoring, the original
\* function before start() and after stop().
consoleError(m, line) ==
  IF isMonitoring THEN consoleErrorWrapper([m EXCEPT !.said = Append(@, line)], line)
  ELSE [m EXCEPT !.said = Append(@, line), !.shown = Append(@, line)]

\* A call of console.warn.
consoleWarn(m, line) ==
  IF isMonitoring THEN consoleWarnWrapper([m EXCEPT !.said = Append(@, line)], line)
  ELSE [m EXCEPT !.said = Append(@, line), !.shown = Append(@, line)]

\* The own lines as console.error and as console.warn arguments.
DiagKinds ==
  {"echo", "tooSoon", "maxAttempts", "tooMany", "initiated", "recoveryFailed", "started",
   "forwardFailed", "forwardNotOk"}

ErrorLine == [kind \in DiagKinds |-> Line(kind, Features(DiagText(kind)), FALSE)]

WarnLine == [kind \in DiagKinds |-> Line(kind, NoFeatures, isCriticalWarning(DiagText(kind)))]

\* console.error(line) by the handler itself.
\* The line is noted as recorded when the wrapper made an ErrorInfo of it.
emitError(m, kind) ==
  LET e == [m EXCEPT !.de = @ \cup {kind}, !.depth = @ + 1]
      a == consoleError(e, ErrorLine[kind])
  IN [a EXCEPT !.dr = IF a.nl > m.nl THEN @ \cup {kind} ELSE @, !.depth = m.depth]

\* console.warn(line) by the handler itself.
emitWarn(m, kind) ==
  LET e == [m EXCEPT !.de = @ \cup {kind}, !.depth = @ + 1]
      a == consoleWarn(e, WarnLine[kind])
  IN [a EXCEPT !.dr = IF a.nl > m.nl THEN @ \cup {kind} ELSE @, !.depth = m.depth]

\* ErrorMonitor.safeLog / safeError: the original console methods, not the
\* wrappers.
safeLog(m, kind) == [m EXCEPT !.de = @ \cup {kind}]

\* Variant of pushLog that never evicts.
pushLogNoShift(m) ==
  [m EXCEPT !.log = Append(m.log, m.nl + 1), !.nl = m.nl + 1, !.fresh = TRUE]

\* ErrorHandler.logError, the log itself: push, then shift when over maxLogSize.
pushLog(m) ==
  LET l == Append(m.log, m.nl + 1)
  IN [m EXCEPT !.log = IF Len(l) > maxLogSize THEN Tail(l) ELSE l,
               !.nl = m.nl + 1, !.fresh = TRUE]

\* ErrorHandler.sendErrorToServer: fetch in the production build only.
sendErrorToServer(m) == IF prodBuild THEN [m EXCEPT !.fw = @ + 1] ELSE m

\* ErrorHandler.logError: the log, the development echo, the forwarding.
\* (A console call nested MaxNest deep is not followed further.)
logError(m, src) ==
  LET a == pushLog(m)
      b == IF ~prodBuild /\ m.depth < MaxNest THEN emitError(a, "echo") ELSE a
  IN sendErrorToServer(b)

\* Variant of canRecover that needs more than the cooldown to have passed.
canRecoverStrict(m) ==
  m.rc < maxReloadAttempts /\ now - m.lrt > reloadCooldown

\* ErrorHandler.canRecover
canRecover(m) ==
  m.rc < maxReloadAttempts /\ now - m.lrt >= reloadCooldown

\* recover(), first part: this.reloadCount++, this.lastReloadTime = now.
countAttempt(m) == [m EXCEPT !.rc = m.rc + 1, !.lrt = now]

\* recover(), second part: the two sessionStorage.setItem calls.
persistAttempt(m) == [m EXCEPT !.sa = m.rc, !.st = m.lrt]

\* recover(), last part: window.location.reload(); unsaved notes a call made
\* while sessionStorage did not hold the handler's count and time.
reload(m) ==
  [m EXCEPT !.calls = m.calls + 1,
            !.unsaved = @ \/ m.sa # m.rc \/ m.st # m.lrt]

\* Variant of recover without the cooldown check.
recoverNoCooldown(m) ==
  IF m.rc >= maxReloadAttempts THEN emitError(m, "maxAttempts")
  ELSE reload(persistAttempt(countAttempt(m)))

\* recover() in its cooldown branch: the warning, return false.
tooSoon(m) == [emitWarn(m, "tooSoon") EXCEPT !.drop = TRUE]

\* Variant of recover without the attempt cap.
recoverNoCap(m) ==
  IF now - m.lrt < reloadCooldown THEN tooSoon(m)
  ELSE reload(persistAttempt(countAttempt(m)))

\* Variant of recover that reloads before it persists.
recoverReloadFirst(m) ==
  IF now - m.lrt < reloadCooldown THEN tooSoon(m)
  ELSE IF m.rc >= maxReloadAttempts THEN emitError(m, "maxAttempts")
  ELSE persistAttempt(reload(countAttempt(m)))

\* ErrorHandler.recover: cooldown check, attempt cap, then count, persist, reload.
recover(m) ==
  IF now - m.lrt < reloadCooldown THEN tooSoon(m)
  ELSE IF m.rc >= maxReloadAttempts THEN emitError(m, "maxAttempts")
  ELSE reload(persistAttempt(countAttempt(m)))

\* ErrorHandler.resetReloadCount
resetReloadCount(m) ==
  [m EXCEPT !.rc = 0, !.lrt = 0, !.sa = NoItem, !.st = NoItem, !.reset = TRUE]

\* Variant of shouldAttemptRecovery that needs more than errorThreshold errors.
shouldAttemptRecoveryStrict(m) ==
  IF m.ec <= errorThreshold THEN FALSE
  ELSE IF ~canRecover(m) THEN FALSE
  ELSE Len(InWindow(m.ts, now)) > errorThreshold

\* ErrorMonitor.shouldAttemptRecovery
shouldAttemptRecovery(m) ==
  IF m.ec < errorThreshold THEN FALSE
  ELSE IF ~canRecover(m) THEN FALSE
  ELSE Len(InWindow(m.ts, now)) >= errorThreshold

\* ErrorMonitor.attemptRecovery (its own lines go through safeLog/safeError)
attemptRecovery(m) ==
  LET a == safeLog([m EXCEPT !.ec = 0, !.ts = <<>>], "tooMany")
      b == recover(a)
  IN IF b.calls > a.calls THEN safeLog(b, "initiated") ELSE safeLog(b, "recoveryFailed")

\* ErrorMonitor.recordError
recordError(m, src) ==
  LET a == logError([m EXCEPT !.ts = Append(m.ts, now), !.ec = m.ec + 1], src)
  IN IF shouldAttemptRecovery(a) THEN attemptRecovery(a) ELSE a

\* ErrorMonitor.handleWindowError
handleWindowError(m) ==
  LET a == recordError(logError(m, "window.error"), "window.error")
  IN IF shouldAttemptRecovery(a) THEN attemptRecovery(a) ELSE a

\* ErrorMonitor.handleUnhandledRejection
monitorUnhandledRejection(m) ==
  LET a == recordError(logError(m, "unhandledRejection"), "unhandledRejection")
  IN IF shouldAttemptRecovery(a) THEN attemptRecovery(a) ELSE a

\* errorHandler.ts handleError / handleUnhandledRejection:
\* logError, then setTimeout(recover, 1000) when canRecover().
handleError(m, src) ==
  LET a == logError(m, src)
  IN IF canRecover(a) THEN [a EXCEPT !.tm = Append(a.tm, now + handleErrorDelay)]
     ELSE a

\* ErrorMonitor.cleanupOldErrors
cleanupOldErrors(m) ==
  LET keep == InWindow(m.ts, now) IN [m EXCEPT !.ts = keep, !.ec = Len(keep)]

\* The two lists hold the same lines the same number of times.
SameLines(a, b) ==
  /\ Len(a) = Len(b)
  /\ \A i \in 1..Len(a) :
       Cardinality({j \in 1..Len(a) : a[j] = a[i]})
         = Cardinality({j \in 1..Len(b) : b[j] = a[i]})

CommitRec(m) ==
  \E h \in {m} :
    /\ errorCount' = h.ec
    /\ errorTimestamps' = h.ts
    /\ errorLog' = h.log
    /\ nLogged' = h.nl
    /\ reloadCount' = h.rc
    /\ lastReloadTime' = h.lrt
    /\ sessAttempt' = h.sa
    /\ sessTime' = h.st
    /\ timers' = h.tm
    /\ navPending' = (navPending \/ h.calls > 0)
    /\ forwards' = h.fw
    /\ diagEmitted' = h.de
    /\ diagRecorded' = h.dr
    /\ prodBuild' = prodBuild
    /\ isMonitoring' = isMonitoring
    /\ misdelivered' = (misdelivered \/ ~SameLines(h.said, h.shown))
    /\ reloadUnsaved' = (reloadUnsaved \/ h.unsaved)
    /\ dropPending' = IF h.drop THEN "dropped"
                      ELSE IF h.fresh THEN "none"
                      ELSE dropPending
    /\ restartsSinceReset' =
         LET n == (IF h.reset THEN 0 ELSE restartsSinceReset) + h.calls
         IN IF n > maxReloadAttempts THEN maxReloadAttempts + 1 ELSE n

\* History of the reload() calls: time, the critical errors the instance had
\* captured by then (critSeen), the path that called recover(), the monitor's
\* burst (the errors inside its window, this one included).
NoReload == [at |-> NoItem, crit |-> 0, path |-> "none", burst |-> 0]

NoteReload(m, path, crits, burst) ==
  reloadHist' =
    IF m.calls > 0
    THEN <<reloadHist[2], [at |-> now, crit |-> crits, path |-> path, burst |-> burst]>>
    ELSE reloadHist

\* History kept by every capture handler.  crit: the captured error counts as
\* critical (its message matches the critical patterns, or it is an uncaught
\* exception, a rejection, a render error or an explicitly reported error);
\* rec: the monitor recorded it in its window; pat: isCriticalError (for a
\* warning isCriticalWarning) classifies its message critical.
\* burstReloads is the number of reload() calls the handler made when it
\* recorded an error that was at least the errorThreshold-th one inside the
\* window since the monitor's last attempt, with canRecover() true when the
\* handler started; NoItem after any other handler.
Capture(m, path, crit, rec, pat) ==
  LET crits == IF crit /\ critSeen < errorThreshold THEN critSeen + 1 ELSE critSeen
      burst == IF crit /\ rec
               THEN Len(InWindow(errorTimestamps, now)) + 1 ELSE 0
      dense == denseSeen \/ (crit /\ Len(InWindow(critTimes, now)) + 1 >= errorThreshold)
  IN \E h \in {m} :
       /\ CommitRec(h)
       /\ critSeen' = crits
       /\ critTimes' = IF dense THEN <<>>
                       ELSE IF crit THEN Append(InWindow(critTimes, now), now)
                       ELSE critTimes
       /\ denseSeen' = dense
       /\ burstReloads' = IF burst >= errorThreshold /\ canRecover(Rec)
                          THEN h.calls ELSE NoItem
       /\ NoteReload(h, "monitor", crits, burst)
       /\ nonCritFed' = (nonCritFed \/ (rec /\ ~pat))

Alive == nLogged < MaxLogged

ebVars == <<ebMounted, ebHasError, ebAttempted, ebTimer>>

\* ------------------------------------------------------ recovery actions

\* The line logout() writes in its catch: the text (in Japanese in the
\* source) and the message of the error, here axios's 'Network Error'.
LogoutFailedText == <<"logout api call failed:", "network error">>

\* Request r gets no response (network down): axios rejects with 'Network
\* Error'.  The response interceptor passes it on (no status), the chain of
\* awaiting callers fails with the same error, and a logout() among them
\* writes its line with console.error, through the monitor's wrapper.
RespondNetworkError ==
  \E r \in 1..MaxReq :
    /\ reqs[r].pc = "inflight"
    /\ Alive
    /\ LET s == OnError(Store, r, 0)
           logged == \E p \in 1..MaxReq :
                       /\ s.reqs[p].kind = "logout"
                       /\ s.reqs[p].pc = "fail"
                       /\ reqs[p].pc # "fail"
           crit == isCriticalError(Features(LogoutFailedText))
       IN /\ Commit(s)
          /\ IF logged
             THEN /\ Capture(consoleError(Rec, Line("logout", Features(LogoutFailedText),
                                                    FALSE)),
                             "console.error", crit, crit, crit)
                  /\ UNCHANGED <<nextCleanup, ebVars, loadPending, procs>>
             ELSE UNCHANGED recVars
    /\ UNCHANGED <<now, configToken, nextGen, nreq>>

\* The monitor's window listeners are registered by start() and removed by
\* stop(); a is what the listener does.
Listening(a) == IF isMonitoring THEN a ELSE Rec

\* console.error(msg) anywhere in the application.
ConsoleError ==
  \E msg \in Msgs :
    /\ Alive
    /\ Capture(consoleError(Rec, Line("app", msg, FALSE)), "console.error",
               isCriticalError(msg), isMonitoring /\ isCriticalError(msg),
               isCriticalError(msg))
    /\ UNCHANGED <<now, authVars, nextCleanup, ebVars, loadPending, procs>>

\* console.warn(msg) anywhere in the application.
ConsoleWarn ==
  \E w \in BOOLEAN :
    /\ Alive
    /\ Capture(consoleWarn(Rec, Line("app", NoFeatures, w)), "console.warn",
               w, isMonitoring /\ w, w)
    /\ UNCHANGED <<now, authVars, nextCleanup, ebVars, loadPending, procs>>

\* A window error event: the monitor's listener, then main.tsx's listener.
\* The event is that of an uncaught exception whose message the patterns
\* classify critical ('Uncaught TypeError: ...').
WindowError ==
    /\ Alive
    /\ Capture(logError(Listening(handleWindowError(Rec)), "global"), "window.error", TRUE, TRUE,
               TRUE)
    /\ UNCHANGED <<now, authVars, nextCleanup, ebVars, loadPending, procs>>

\* A window error event with any message.
WindowErrorAny ==
  \E msg \in Msgs :
    /\ Alive
    /\ Capture(logError(Listening(handleWindowError(Rec)), "global"), "window.error", TRUE, TRUE,
               isCriticalError(msg))
    /\ UNCHANGED <<now, authVars, nextCleanup, ebVars, loadPending, procs>>

\* An unhandledrejection event: the monitor's listener, then
\* errorHandler.ts handleUnhandledRejection registered by main.tsx.
\* The reason's message is one the patterns classify critical.
UnhandledRejection ==
    /\ Alive
    /\ Capture(handleError(Listening(monitorUnhandledRejection(Rec)), "unhandledRejection"),
               "unhandledRejection", TRUE, TRUE, TRUE)
    /\ UNCHANGED <<now, authVars, nextCleanup, ebVars, loadPending, procs>>

\* An unhandledrejection event whose reason has any message.
UnhandledRejectionAny ==
  \E msg \in Msgs :
    /\ Alive
    /\ Capture(handleError(Listening(monitorUnhandledRejection(Rec)), "unhandledRejection"),
               "unhandledRejection", TRUE, TRUE, isCriticalError(msg))
    /\ UNCHANGED <<now, authVars, nextCleanup, ebVars, loadPending, procs>>

\* An explicit handleError(error, source) call of the application.
HandleError ==
    /\ Alive
    /\ Capture(handleError(Rec, "explicit"), "handleError", TRUE, FALSE, TRUE)
    /\ UNCHANGED <<now, authVars, nextCleanup, ebVars, loadPending, procs>>

\* errorHandler.logError(error, source) called on its own.
LogError ==
  /\ nLogged < MaxLogCalls
  /\ CommitRec(logError(Rec, "direct"))
  /\ UNCHANGED <<now, authVars, nextCleanup, ebVars, loadPending, procs, critSeen, critTimes, denseSeen,
                 burstReloads, nonCritFed, reloadHist>>

\* The fetch of sendErrorToServer is answered with an ok response.
ForwardOk ==
  /\ forwards > 0
  /\ CommitRec([Rec EXCEPT !.fw = @ - 1])
  /\ UNCHANGED <<now, authVars, nextCleanup, ebVars, loadPending, procs, critSeen, critTimes, denseSeen,
                 burstReloads, nonCritFed, reloadHist>>

\* The fetch is answered with a response that is not ok: sendErrorToServer
\* throws 'Failed to send error to server' and its catch writes the line.
ForwardNotOk ==
  /\ forwards > 0
  /\ Alive
  /\ LET crit == isCriticalError(Features(DiagText("forwardNotOk")))
     IN Capture(emitError([Rec EXCEPT !.fw = @ - 1], "forwardNotOk"),
                "console.error", crit, crit, crit)
  /\ UNCHANGED <<now, authVars, nextCleanup, ebVars, loadPending, procs>>

\* The fetch rejects (no network: 'Failed to fetch'); the catch writes the line.
ForwardRejected ==
  /\ forwards > 0
  /\ Alive
  /\ LET crit == isCriticalError(Features(DiagText("forwardFailed")))
     IN Capture(emitError([Rec EXCEPT !.fw = @ - 1], "forwardFailed"),
                "console.error", crit, crit, crit)
  /\ UNCHANGED <<now, authVars, nextCleanup, ebVars, loadPending, procs>>

\* stopErrorMonitoring(): console.error and console.warn are set back to the
\* saved functions and the monitor's window listeners are removed.
Stop ==
  /\ isMonitoring
  /\ isMonitoring' = FALSE
  /\ UNCHANGED <<now, authVars, errorCount, errorTimestamps, nextCleanup, errorLog, nLogged,
                 reloadCount, lastReloadTime, sessAttempt, sessTime, timers, ebVars,
                 navPending, loadPending, procs, critSeen, critTimes, denseSeen, burstReloads, reloadHist,
                 restartsSinceReset, prodBuild, forwards, diagEmitted, diagRecorded,
                 nonCritFed, misdelivered, reloadUnsaved, dropPending>>

\* A render error caught by the boundary: getDerivedStateFromError, then
\* componentDidCatch (logError, console.error, attemptRecovery).
RenderError ==
  \E msg \in Msgs :
    /\ Alive
    /\ ebMounted
    /\ ~ebHasError
    /\ LET m == consoleError(logError(Rec, "ErrorBoundary"),
                             Line("boundary", Prefixed(msg), FALSE))
       IN /\ Capture(m, "ErrorBoundary", TRUE, isCriticalError(Prefixed(msg)),
                     isCriticalError(Prefixed(msg)))
          /\ ebHasError' = TRUE
          /\ IF ~ebAttempted /\ canRecover(m)
             THEN ebAttempted' = TRUE /\ ebTimer' = now + boundaryDelay
             ELSE UNCHANGED <<ebAttempted, ebTimer>>
    /\ UNCHANGED <<now, authVars, nextCleanup, loadPending, procs, ebMounted>>

\* The timer set by handleError / handleUnhandledRejection fires.
RecoverTimer ==
  /\ timers # <<>>
  /\ Head(timers) <= now
  /\ \E m \in {recover([Rec EXCEPT !.tm = Tail(timers)])} :
       /\ CommitRec(m)
       /\ NoteReload(m, "timer", critSeen, 0)
  /\ UNCHANGED <<now, authVars, nextCleanup, ebVars, loadPending, procs, critSeen, critTimes, denseSeen,
                 burstReloads, nonCritFed>>

\* handleError, for the first few records of the process.
HandleErrorFew ==
  /\ nLogged < MaxHandled
  /\ HandleError

\* errorHandler.recover() called on its own.
Recover ==
  /\ \E m \in {recover(Rec)} :
       /\ CommitRec(m)
       /\ NoteReload(m, "direct", critSeen, 0)
  /\ UNCHANGED <<now, authVars, nextCleanup, ebVars, loadPending, procs, critSeen, critTimes, denseSeen,
                 burstReloads, nonCritFed>>

\* errorHandler.resetReloadCount() called on its own.
ResetReloadCount ==
  /\ CommitRec(resetReloadCount(Rec))
  /\ UNCHANGED <<now, authVars, nextCleanup, ebVars, loadPending, procs, critSeen, critTimes, denseSeen,
                 burstReloads, nonCritFed, reloadHist>>

\* The boundary's timer fires: recover(), and on success the state is reset.
BoundaryTimer ==
  /\ ebTimer # NoItem
  /\ ebTimer <= now
  /\ \E m \in {recover(Rec)} :
       /\ CommitRec(m)
       /\ NoteReload(m, "boundary", critSeen, 0)
       /\ ebTimer' = NoItem
       /\ IF m.calls > 0
          THEN ebHasError' = FALSE /\ ebAttempted' = FALSE
          ELSE UNCHANGED <<ebHasError, ebAttempted>>
  /\ UNCHANGED <<now, authVars, nextCleanup, loadPending, procs, critSeen, critTimes, denseSeen,
                 burstReloads, nonCritFed, ebMounted>>

\* ErrorBoundary.handleReset (the retry button of the fallback UI).
HandleReset ==
  /\ ebMounted
  /\ ebHasError
  /\ CommitRec(resetReloadCount(Rec))
  /\ ebHasError' = FALSE
  /\ ebAttempted' = FALSE
  /\ ebTimer' = NoItem
  /\ UNCHANGED <<now, authVars, nextCleanup, loadPending, procs, critSeen, critTimes, denseSeen,
                 burstReloads, nonCritFed, reloadHist, ebMounted>>

\* ErrorBoundary.componentWillUnmount: clearTimeout of the boundary's timeout;
\* the instance and its state are discarded by React.
Unmount ==
  /\ ebMounted
  /\ ebMounted' = FALSE
  /\ ebHasError' = FALSE
  /\ ebAttempted' = FALSE
  /\ ebTimer' = NoItem
  /\ UNCHANGED <<now, authVars, errorCount, errorTimestamps, nextCleanup, errorLog, nLogged,
                 reloadCount, lastReloadTime, sessAttempt, sessTime, timers,
                 navPending, loadPending, procs, critSeen, critTimes, denseSeen, burstReloads,
                 reloadHist, restartsSinceReset, prodBuild, forwards, diagEmitted,
                 diagRecorded, nonCritFed, isMonitoring, misdelivered, reloadUnsaved,
                 dropPending>>

\* The monitor's setInterval callback.
Cleanup ==
  /\ now >= nextCleanup
  /\ CommitRec(cleanupOldErrors(Rec))
  /\ nextCleanup' = nextCleanup + errorWindow
  /\ UNCHANGED <<now, authVars, ebVars, loadPending, procs, critSeen, critTimes, denseSeen,
                 burstReloads, nonCritFed, reloadHist>>

\* The reloaded document starts: every module is evaluated again (new
\* ErrorHandler, new ErrorMonitor, startErrorMonitoring()); sessionStorage stays.
NewDocument ==
  /\ procs' = procs + 1
  /\ errorCount' = 0
  /\ errorTimestamps' = <<>>
  /\ nextCleanup' = now + errorWindow
  /\ errorLog' = <<>>
  /\ nLogged' = 0
  /\ reloadCount' = 0
  /\ lastReloadTime' = 0
  /\ timers' = <<>>
  /\ ebMounted' = TRUE
  /\ ebHasError' = FALSE
  /\ ebAttempted' = FALSE
  /\ ebTimer' = NoItem
  /\ navPending' = FALSE
  /\ loadPending' = TRUE
  /\ critSeen' = 0
  /\ critTimes' = <<>>
  /\ denseSeen' = FALSE
  /\ burstReloads' = NoItem
  /\ forwards' = 0
  /\ diagEmitted' = {}
  /\ diagRecorded' = {}
  /\ nonCritFed' = FALSE
  /\ isMonitoring' = TRUE
  /\ misdelivered' = FALSE
  /\ dropPending' = "none"
  /\ UNCHANGED <<now, authVars, sessAttempt, sessTime, reloadHist, restartsSinceReset,
                 prodBuild, reloadUnsaved>>

PageLoad ==
  /\ navPending
  /\ procs < MaxProcs
  /\ NewDocument

PageLoadAgain ==
  /\ navPending
  /\ procs < MaxRestartProcs
  /\ NewDocument

\* main.tsx's window load listener.
LoadHandler ==
  /\ loadPending
  /\ loadPending' = FALSE
  /\ IF sessAttempt # NoItem /\ sessTime # NoItem
     THEN LET a == IF now - sessTime < loadResetWindow /\ sessAttempt < loadResetAttempts
                   THEN resetReloadCount(Rec) ELSE Rec
          IN CommitRec([a EXCEPT !.sa = NoItem, !.st = NoItem])
     ELSE CommitRec(Rec)
  /\ UNCHANGED <<now, authVars, nextCleanup, ebVars, procs, critSeen, critTimes, denseSeen,
                 burstReloads, nonCritFed, reloadHist>>

\* Time passes; a timer that is due fires before the clock moves on, and so
\* does the load event of a document that has just started.
NothingDue(horizon) ==
  /\ now < StartTime + horizon
  /\ ~loadPending
  /\ IF timers = <<>> THEN TRUE ELSE Head(timers) > now
  /\ IF ebTimer = NoItem THEN TRUE ELSE ebTimer > now
  /\ now < nextCleanup

Tick ==
  /\ NothingDue(ShortHorizon)
  /\ now' = now + 1
  /\ UNCHANGED <<authVars, recVars>>

TickLong ==
  /\ NothingDue(Horizon)
  /\ now' = now + 1
  /\ UNCHANGED <<authVars, recVars>>

TickRestart ==
  /\ NothingDue(RestartHorizon)
  /\ now' = now + 1
  /\ UNCHANGED <<authVars, recVars>>

TickHandler ==
  /\ NothingDue(HandlerHorizon)
  /\ now' = now + 1
  /\ UNCHANGED <<authVars, recVars>>

\* ------------------------------------------------------- specifications

\* The store as rehydrated from localStorage (g: the persisted credential, if
\* any), and the getter's snapshot taken by configureAuth at module load.
HydratedFor(g, e) ==
  /\ accessToken = g
  /\ refreshToken = g
  /\ tokenExpiresAt = IF g = Null THEN Null ELSE StartTime + e
  /\ configToken = g
  /\ issued = [t |-> StartTime, e |-> e]
  /\ loggedOut = FALSE

Hydrated(g) == HydratedFor(g, ExpiresIn)

InitAuth(G) ==
  /\ \E g \in G : Hydrated(g)
  /\ reqs = [r \in 1..MaxReq |-> FreeReq]
  /\ nreq = 0
  /\ nextGen = 2

InitRec ==
  /\ errorCount = 0
  /\ errorTimestamps = <<>>
  /\ nextCleanup = StartTime + errorWindow
  /\ errorLog = <<>>
  /\ nLogged = 0
  /\ reloadCount = 0
  /\ lastReloadTime = 0
  /\ sessAttempt = NoItem
  /\ sessTime = NoItem
  /\ timers = <<>>
  /\ ebMounted = TRUE
  /\ ebHasError = FALSE
  /\ ebAttempted = FALSE
  /\ ebTimer = NoItem
  /\ navPending = FALSE
  /\ loadPending = TRUE
  /\ procs = 1
  /\ critSeen = 0
  /\ critTimes = <<>>
  /\ denseSeen = FALSE
  /\ burstReloads = NoItem
  /\ reloadHist = <<NoReload, NoReload>>
  /\ restartsSinceReset = 0
  /\ forwards = 0
  /\ diagEmitted = {}
  /\ diagRecorded = {}
  /\ nonCritFed = FALSE
  /\ isMonitoring = TRUE
  /\ misdelivered = FALSE
  /\ reloadUnsaved = FALSE
  /\ dropPending = "none"

Init == now = StartTime /\ InitAuth({Null, 1}) /\ InitRec /\ prodBuild = FALSE

\* A credential of any of the lifetimes, or none, is stored at the start.
InitExpiry ==
  /\ now = StartTime
  /\ \E g \in {Null, 1}, e \in ExpiryChoices : HydratedFor(g, e)
  /\ reqs = [r \in 1..MaxReq |-> FreeReq]
  /\ nreq = 0
  /\ nextGen = 2
  /\ InitRec
  /\ prodBuild = FALSE

\* No session is stored while the recovery machinery is observed, in the
\* development build.
InitRecovery == now = StartTime /\ InitAuth({Null}) /\ InitRec /\ prodBuild = FALSE

\* The same in either build.
InitForward == now = StartTime /\ InitAuth({Null}) /\ InitRec /\ prodBuild \in BOOLEAN

NextAuth ==
  \/ Login
  \/ ApiCall
  \/ RefreshAccessToken
  \/ Logout
  \/ RespondOk
  \/ Respond401
  \/ RespondError

\* Every capture path and the process restarts, over a horizon shorter than
\* the monitor's cleanup interval.
NextRec ==
  \/ ConsoleError
  \/ ConsoleWarn
  \/ WindowError
  \/ UnhandledRejection
  \/ HandleError
  \/ RenderError
  \/ RecoverTimer
  \/ BoundaryTimer
  \/ HandleReset
  \/ PageLoad
  \/ LoadHandler
  \/ Tick

\* The session store and the request pipeline.
Spec == Init /\ [][NextAuth]_vars

\* One process instance and the monitor's capture paths, over a horizon
\* longer than errorWindow.
NextMonitor ==
  \/ ConsoleError
  \/ ConsoleWarn
  \/ WindowError
  \/ UnhandledRejection
  \/ RecoverTimer
  \/ Cleanup
  \/ LoadHandler
  \/ TickLong

\* The error handler, the monitor, the boundary and the process restarts.
SpecRecovery == InitRecovery /\ [][NextRec]_vars

SpecMonitor == InitRecovery /\ [][NextMonitor]_vars

\* Repeated restarts: bursts on the monitor's console path and the successive
\* process instances.
NextRestarts ==
  \/ ConsoleError
  \/ PageLoadAgain
  \/ LoadHandler
  \/ TickRestart

SpecRestarts == InitRecovery /\ [][NextRestarts]_vars

\* The error handler's own output and the forwarding of the logged errors.
NextForward ==
  \/ ConsoleError
  \/ HandleError
  \/ RecoverTimer
  \/ ForwardOk
  \/ ForwardNotOk
  \/ ForwardRejected
  \/ LoadHandler
  \/ Tick

SpecForward == InitForward /\ [][NextForward]_vars

\* The four capture channels of the monitor with messages of every
\* classification.
NextClassify ==
  \/ ConsoleError
  \/ ConsoleWarn
  \/ WindowErrorAny
  \/ UnhandledRejectionAny
  \/ RecoverTimer
  \/ LoadHandler
  \/ Tick

SpecClassify == InitRecovery /\ [][NextClassify]_vars

\* The session store and the request pipeline with a network that can fail,
\* observed by the monitor.
NextSession ==
  \/ Login
  \/ ApiCall
  \/ RefreshAccessToken
  \/ Logout
  \/ RespondOk
  \/ Respond401
  \/ RespondError
  \/ RespondNetworkError

SpecSession == Init /\ [][NextSession]_vars

\* The console channels while the monitor is started and after it is stopped.
NextConsole ==
  \/ ConsoleError
  \/ ConsoleWarn
  \/ HandleError
  \/ RecoverTimer
  \/ Stop
  \/ LoadHandler
  \/ Tick

SpecConsole == InitRecovery /\ [][NextConsole]_vars

\* One process instance with the timer paths, the boundary and the manual
\* reset.
NextReset ==
  \/ HandleError
  \/ RenderError
  \/ RecoverTimer
  \/ BoundaryTimer
  \/ HandleReset
  \/ LoadHandler
  \/ Tick

SpecReset == InitRecovery /\ [][NextReset]_vars

\* Repeated restarts with the boundary and its manual reset.
NextBudget ==
  \/ ConsoleError
  \/ RenderError
  \/ BoundaryTimer
  \/ HandleReset
  \/ PageLoadAgain
  \/ LoadHandler
  \/ Tick

SpecBudget == InitRecovery /\ [][NextBudget]_vars

\* The ErrorHandler object driven through its public methods in any order
\* and at any instant, over more than three cooldowns: recover(),
\* resetReloadCount(), and errors reported through handleError with their
\* timers.
NextHandler ==
  \/ Recover
  \/ ResetReloadCount
  \/ HandleErrorFew
  \/ RecoverTimer
  \/ Cleanup
  \/ LoadHandler
  \/ TickHandler

SpecHandler == InitRecovery /\ [][NextHandler]_vars

\* One process instance with the boundary, its timer, the manual reset and the
\* unmount, next to the timers of handleError.
NextBoundary ==
  \/ RenderError
  \/ BoundaryTimer
  \/ HandleReset
  \/ Unmount
  \/ HandleError
  \/ RecoverTimer
  \/ LoadHandler
  \/ Tick

SpecBoundary == InitRecovery /\ [][NextBoundary]_vars

\* The session store over the lifetime of a credential.
NextExpiry ==
  \/ ExpiryLogin
  \/ ClearTokens
  \/ TickExpiry

SpecExpiry == InitExpiry /\ [][NextExpiry]_vars

\* The error log filled beyond its capacity.
NextLog ==
  \/ LogError
  \/ LoadHandler

SpecLog == InitRecovery /\ [][NextLog]_vars


\* ------------------------------------------------------------- properties

Reqs == 1..MaxReq

Settled(r) == reqs[r].pc \in {"ok", "fail"}

\* C1: while one token refresh is in progress, further refresh invocations
\* wait for its result, so at most one backend refresh request is outstanding.
C1_SingleFlight ==
  Cardinality({r \in Reqs : reqs[r].kind = "refresh" /\ reqs[r].pc = "inflight"}) <= 1

\* C2: refresh invocations that overlap in time all end with the same outcome
\* (all succeed or all fail).
C2_SameOutcome ==
  \A a, b \in Reqs :
    (reqs[b].kind = "refresh" /\ a \in reqs[b].peers /\ Settled(a) /\ Settled(b))
      => reqs[a].pc = reqs[b].pc

\* C3: a request is sent at most twice and has the token refreshed for it at
\* most once; a second 401 for the same request ends it with that 401 error.
C3_RetryOnce ==
  \A r \in Reqs :
    /\ reqs[r].sends <= 2
    /\ reqs[r].refreshes <= 1
    /\ reqs[r].n401 >= 2 =>
         /\ reqs[r].pc = "fail"
         /\ reqs[r].err = "401"
         /\ reqs[r].seen = "rejected" \/ reqs[r].kind = "logout"

\* C3 witness: an API call was answered 401, resent after a refresh, answered
\* 401 again and has failed.
C3_Witness ==
  \E r \in Reqs :
    /\ reqs[r].kind = "api" /\ reqs[r].n401 = 2 /\ reqs[r].sends = 2
    /\ reqs[r].refreshes = 1 /\ reqs[r].pc = "fail"

\* C4: the refresh request itself never triggers the refresh-and-retry
\* handling: no token refresh is ever started for a refresh request.
C4_NoRefreshOfRefresh ==
  \A r \in Reqs : reqs[r].kind = "refresh" => reqs[r].refreshes = 0

\* C5: every request that is sent carries the access token the store holds at
\* the moment of sending (none when the store holds none).
C5_CurrentToken ==
  \A r \in Reqs : reqs[r].sends >= 1 => reqs[r].auth = reqs[r].storeTok

\* C6: when the refresh made for a 401 fails, the original call fails with the
\* refresh error without being resent (its caller gets the rejection; logout()
\* catches it), and no credential is left in the store.
C6_RefreshFailure ==
  \A r \in Reqs :
    reqs[r].err = "refresh" =>
      /\ reqs[r].pc = "fail"
      /\ reqs[r].seen = "rejected" \/ reqs[r].kind = "logout"
      /\ reqs[r].sends = 1
      /\ reqs[r].credAbsentAtEnd

\* C6 witness: an API call has failed because the refresh request sent for its
\* 401 was rejected by the backend.
C6_Witness ==
  \E r, c \in Reqs :
    /\ reqs[r].kind = "api" /\ reqs[r].err = "refresh" /\ reqs[r].pc = "fail"
    /\ reqs[c].kind = "refresh" /\ reqs[c].parent = r
    /\ reqs[c].pc = "fail" /\ reqs[c].sends >= 1

\* C7: every logout() that has returned, whether its notification succeeded,
\* failed or was never sent, returned normally and left no credential.
C7_LogoutClears ==
  \A r \in Reqs :
    (reqs[r].kind = "logout" /\ Settled(r)) =>
      reqs[r].seen = "resolved" /\ reqs[r].credAbsentAtEnd

\* C7 witness: a logout whose notification was sent and rejected has returned.
C7_Witness ==
  \E r \in Reqs :
    /\ reqs[r].kind = "logout" /\ reqs[r].pc = "fail" /\ reqs[r].sends >= 1
    /\ reqs[r].credAbsentAtEnd

\* C8: the page is reloaded only by a process instance that has captured at
\* least errorThreshold critical errors; fewer never trigger a restart.
C8_BelowThresholdNoRestart ==
  reloadHist[2].at # NoItem => reloadHist[2].crit >= errorThreshold

\* C9: a handler that records the errorThreshold-th critical error inside the
\* window, with the restart budget allowing it, calls reload() exactly once.
C9_BurstRestartsOnce ==
  burstReloads # NoItem => burstReloads = 1

\* C9 witness: such a handler has run and has reloaded the page.
C9_Witness ==
  /\ burstReloads = 1
  /\ reloadHist[2].at = now
  /\ reloadHist[2].burst >= errorThreshold

\* C10: two restarts that were each triggered by a burst of critical errors are
\* at least reloadCooldown apart.
C10_CooldownBetweenBursts ==
  (reloadHist[1].burst >= errorThreshold /\ reloadHist[2].burst >= errorThreshold)
    => reloadHist[2].at - reloadHist[1].at >= reloadCooldown


\* C11: between two resets of the restart budget, at most maxReloadAttempts
\* automatic restarts are performed, counted over all process instances; a
\* further burst after that restarts nothing.
C11_AttemptCap ==
  restartsSinceReset <= maxReloadAttempts

\* C12: in a process instance started by a restart, as long as the persisted
\* budget is there and the restart is not recent enough for the
\* successful-recovery rule, the controller's attempt count and last attempt
\* time are the persisted ones.
C12_BudgetSurvives ==
  (procs > 1 /\ sessAttempt # NoItem /\ now - sessTime >= loadResetWindow)
    => (reloadCount = sessAttempt /\ lastReloadTime = sessTime)


\* C13: the error log never holds more than maxLogSize records, and it holds
\* the most recently logged ones, in insertion order: all of them up to
\* maxLogSize calls, exactly the last maxLogSize after that.
C13_RingBuffer ==
  LET n == IF nLogged < maxLogSize THEN nLogged ELSE maxLogSize
  IN /\ Len(errorLog) <= maxLogSize
     /\ errorLog = [i \in 1..n |-> nLogged - n + i]

\* C13 witness: maxLogSize + 2 records were logged and the two oldest are gone.
C13_Witness ==
  /\ nLogged = maxLogSize + 2
  /\ Len(errorLog) = maxLogSize
  /\ Head(errorLog) = 3


\* C14: with no expiry stored isTokenExpired() is true; for a credential set at
\* time t with expires_in e it is true from t + e - expirySkew on and false at
\* every earlier instant.
C14_ExpirySkew ==
  isTokenExpired(Store) <=>
    (tokenExpiresAt = Null \/ now >= issued.t + issued.e - expirySkew)

\* C14 witness: a stored credential at the first instant at which it counts as
\* expired.
C14_Witness ==
  /\ tokenExpiresAt # Null
  /\ now = issued.t + issued.e - expirySkew
  /\ now > issued.t
  /\ isTokenExpired(Store)

\* C15: isAuthenticated() is true exactly when both tokens are stored and the
\* time is before set time + expires_in - expirySkew.
C15_DerivedAuthenticated ==
  isAuthenticated(Store) <=>
    (accessToken # Null /\ refreshToken # Null /\ tokenExpiresAt # Null
       /\ now < issued.t + issued.e - expirySkew)

\* C15 witness: a credential with expires_in 3600, still stored unchanged 3301
\* time units after it was set, is no longer authenticated.
C15_Witness ==
  /\ accessToken # Null /\ refreshToken # Null
  /\ issued.e = 3600
  /\ tokenExpiresAt = issued.t + 3600
  /\ now = issued.t + 3301
  /\ ~isAuthenticated(Store)


\* C16: clearTokens applied twice gives the same store as applied once, and a
\* logout() called while no credential is stored sends nothing, returns
\* normally and leaves the credential absent.
C16_LogoutIdempotent ==
  /\ [](clearTokens(clearTokens(Store)) = clearTokens(Store))
  /\ [][(CredAbsent(Store) /\ nreq' = nreq + 1 /\ reqs'[nreq'].kind = "logout")
          => /\ accessToken' = Null /\ refreshToken' = Null /\ tokenExpiresAt' = Null
             /\ reqs'[nreq'].sends = 0
             /\ reqs'[nreq'].pc = "ok"
             /\ reqs'[nreq'].seen = "resolved"]_vars

\* C16 witness: two logout() calls in a row, the second one made after the
\* first had returned and therefore with no credential stored.
C16_Witness ==
  \E r \in 2..MaxReq :
    /\ reqs[r - 1].kind = "logout" /\ Settled(r - 1) /\ reqs[r - 1].sends = 1
    /\ reqs[r].kind = "logout" /\ reqs[r].sends = 0 /\ Settled(r)
    /\ CredAbsent(Store)


\* C17: when a request fails with anything but 401, the pipeline rejects it to
\* the caller with that error, starts no refresh, sends nothing again, and, for
\* an ordinary API call, leaves the stored credential as it was.
C17_OtherFailureUnchanged ==
  [][\A r \in Reqs :
       reqs'[r].nOther > reqs[r].nOther =>
         /\ reqs'[r].pc = "fail"
         /\ reqs'[r].err = "other"
         /\ reqs'[r].seen = "rejected" \/ reqs[r].kind = "logout"
         /\ reqs'[r].sends = reqs[r].sends
         /\ reqs'[r].refreshes = reqs[r].refreshes
         /\ nreq' = nreq
         /\ \A q \in Reqs : reqs[q].pc = "free" => reqs'[q].pc = "free"
         /\ reqs[r].kind = "api" =>
              /\ accessToken' = accessToken
              /\ refreshToken' = refreshToken
              /\ tokenExpiresAt' = tokenExpiresAt]_vars

\* C17 witness: an API call has failed with an error other than 401 while a
\* credential is stored.
C17_Witness ==
  \E r \in Reqs :
    /\ reqs[r].kind = "api" /\ reqs[r].nOther = 1 /\ reqs[r].pc = "fail"
    /\ reqs[r].refreshes = 0 /\ reqs[r].sends = 1
    /\ accessToken # Null /\ refreshToken # Null

\* C18: a failure to forward an ErrorRecord to the remote sink is never
\* re-escalated: the line that sendErrorToServer writes when the fetch fails
\* ('Failed to fetch', or a response that is not ok) creates no new ErrorRecord
\* (and so no window timestamp and no further forwarding attempt).
C18_ForwardFailureLocal ==
  /\ "forwardFailed" \notin diagRecorded
  /\ "forwardNotOk" \notin diagRecorded

\* C19: no diagnostic line that the handler, the monitor or the entry point
\* write themselves ('Error logged: ...', 'Recovery ...', 'Error monitoring ...',
\* 'Too many errors detected ...', 'Max reload attempts ...', 'Recovery attempt
\* too soon ...') is classified critical, as an error or as a warning, and none
\* is ever recorded as a new ErrorRecord with a window timestamp; the
\* development echo of logError does not recurse.
C19_NoSelfTrigger ==
  LET listed == {"echo", "tooSoon", "maxAttempts", "tooMany", "initiated",
                 "recoveryFailed", "started"}
  IN /\ diagRecorded \cap listed = {}
     /\ \A k \in listed : /\ ~isCriticalError(Features(DiagText(k)))
                          /\ ~isCriticalWarning(DiagText(k))

\* C19 witness: the development echo and recover()'s 'too soon' warning have
\* both been written by this instance, after a restart was initiated.
C19_Witness ==
  /\ "echo" \in diagEmitted
  /\ "tooSoon" \in diagEmitted
  /\ navPending
  /\ nLogged >= 2

\* C20: only messages classified critical add a timestamp to the window,
\* whichever channel captured them (console.error, console.warn, window error
\* event, unhandled rejection).
C20_OnlyCriticalFeeds == ~nonCritFed

\* C21: session-layer failures never reach the restart machinery: a rejected
\* refresh or a failed logout notification, whatever its cause (401 or a
\* network error), adds nothing to the window of the monitor, logs no error
\* and causes no restart attempt.
C21_SessionFailuresLocal ==
  /\ errorTimestamps = <<>>
  /\ errorCount = 0
  /\ ~navPending

\* C22: the credential is always complete: accessToken, refreshToken and
\* tokenExpiresAt are all null, or all set and from the same token response;
\* and every step that changes a credential field either clears all of them or
\* stores a whole new token response.
C22_CredentialComplete ==
  /\ [](\/ CredAbsent(Store)
        \/ /\ accessToken # Null
           /\ refreshToken = accessToken
           /\ tokenExpiresAt = issued.t + issued.e)
  /\ [][<<accessToken, refreshToken, tokenExpiresAt>>
           # <<accessToken', refreshToken', tokenExpiresAt'>>
        => \/ accessToken' = Null /\ refreshToken' = Null /\ tokenExpiresAt' = Null
           \/ /\ accessToken' \notin {Null, accessToken}
              /\ refreshToken' = accessToken'
              /\ refreshToken' # refreshToken
              /\ tokenExpiresAt' = now + issued'.e]_vars

\* C22 witness: a credential was stored again after the response interceptor
\* had called the token setter for a failed refresh.
C22_Witness ==
  /\ accessToken \notin {Null, 1}
  /\ refreshToken = accessToken
  /\ \E q \in Reqs : reqs[q].err = "refresh"

\* C23: interception is transparent: in every handler the console.error and
\* console.warn calls made (the application's and the handler's own) are the
\* calls the original console functions get, each once with the same line,
\* whether or not the line is critical or triggers a recovery attempt; after
\* stop() a console call does not reach the monitor any more.
C23_Transparent ==
  /\ []~misdelivered
  /\ [][~isMonitoring
          => /\ errorTimestamps' = errorTimestamps
             /\ errorCount' = errorCount]_vars

\* C23 witness: a critical console.error call made the monitor start a
\* recovery attempt, and the monitor was stopped afterwards.
C23_Witness ==
  /\ ~isMonitoring
  /\ navPending
  /\ reloadHist[2].path = "monitor"
  /\ reloadHist[2].burst >= errorThreshold
  /\ ~misdelivered

\* C24: when the load handler of a process instance runs: if a restart made
\* less than loadResetWindow ago is persisted, the attempt count is zero
\* afterwards (whatever the persisted count) and the persisted budget is gone;
\* if the persisted restart is older, the controller continues with the
\* persisted count and time; if nothing is persisted, the handler changes
\* nothing.
C24_PostRestartReset ==
  [][(loadPending /\ ~loadPending')
       => IF sessAttempt # NoItem /\ now - sessTime < loadResetWindow
          THEN reloadCount' = 0 /\ lastReloadTime' = 0 /\ sessAttempt' = NoItem
          ELSE IF sessAttempt # NoItem
          THEN reloadCount' = sessAttempt /\ lastReloadTime' = sessTime
          ELSE reloadCount' = reloadCount /\ lastReloadTime' = lastReloadTime]_vars

\* C25: every automatic restart is performed by a handler that started with
\* reloadCount < maxReloadAttempts and now - lastReloadTime >= reloadCooldown
\* (a restart exactly reloadCooldown after the last one is allowed, an earlier
\* one is not).
C25_RestartGuard ==
  [][reloadCount' > reloadCount
       => /\ reloadCount < maxReloadAttempts
          /\ now - lastReloadTime >= reloadCooldown]_vars

\* C25 witness: the second restart of a process instance, made exactly
\* reloadCooldown after its first one.
C25_Witness ==
  /\ procs = 1
  /\ reloadCount = 2
  /\ lastReloadTime = now
  /\ reloadHist[1].at # NoItem
  /\ reloadHist[2].at - reloadHist[1].at = reloadCooldown

\* C26: a handler that reloads the page has incremented reloadCount by exactly
\* one, set lastReloadTime to the current time and written both to
\* sessionStorage; and reload() is never called while sessionStorage does not
\* hold the handler's count and time.
C26_RestartEffects ==
  /\ []~reloadUnsaved
  /\ [][reloadHist' # reloadHist
          => /\ reloadCount' = reloadCount + 1
             /\ lastReloadTime' = now
             /\ sessAttempt' = reloadCount'
             /\ sessTime' = lastReloadTime'
             /\ navPending']_vars

\* C26 witness: the second restart of a process instance has just been made.
C26_Witness ==
  /\ navPending
  /\ reloadHist[2].at = now
  /\ reloadCount = 2
  /\ sessAttempt = 2
  /\ sessTime = now

\* C27: a recover() called by a timer before the cooldown has elapsed changes
\* nothing: no reload, the count, the time and the persisted budget stay as
\* they are, nothing is logged or recorded, no timer is added; and after such
\* a call no timer reloads the page until a new error has been logged.
C27_TooSoonDropped ==
  /\ [][(/\ procs' = procs
          /\ now - lastReloadTime < reloadCooldown
          /\ \/ Len(timers') < Len(timers)
             \/ ebTimer # NoItem /\ ebTimer' = NoItem /\ ebHasError')
        => /\ UNCHANGED <<reloadCount, lastReloadTime, sessAttempt, sessTime, navPending,
                          reloadHist, errorTimestamps, errorCount, errorLog, nLogged>>
           /\ timers' = timers \/ (timers # <<>> /\ timers' = Tail(timers))
           /\ ebTimer' \in {ebTimer, NoItem}]_vars
  /\ [][(reloadHist' # reloadHist /\ nLogged' = nLogged) => dropPending = "none"]_vars

\* C28: resetReloadCount() sets reloadCount and lastReloadTime to 0 and removes
\* the persisted budget, from every state; and once maxReloadAttempts
\* automatic restarts have been made since the last reset, no further
\* automatic restart is made until the next reset.
C28_ManualReset ==
  /\ [][(restartsSinceReset > 0 /\ restartsSinceReset' = 0)
         => /\ reloadCount' = 0
            /\ lastReloadTime' = 0
            /\ sessAttempt' = NoItem
            /\ sessTime' = NoItem]_vars
  /\ [][reloadCount' > reloadCount => restartsSinceReset < maxReloadAttempts]_vars

\* C29: only critical errors captured less than errorWindow before the
\* evaluation count toward the threshold: an automatic restart is made only
\* by a process instance that has captured errorThreshold critical errors
\* less than errorWindow apart, whenever the periodic cleanup runs; a
\* sequence of critical errors without such an interval restarts nothing.
C29_SlidingWindow ==
  [][reloadCount' > reloadCount => denseSeen']_vars

\* C30: logout wins over a refresh in flight: once a logout() has completed,
\* the credential stays absent until the next login, also when a
\* refreshAccessToken() started before the logout completes after it.
C30_LogoutWins ==
  loggedOut => CredAbsent(Store)

\* C31: a credential stored by a successful refreshAccessToken() is not
\* destroyed by the failure of another refreshAccessToken() that overlapped
\* it: in a step in which a refresh call fails while the store holds the
\* credential an overlapping refresh call has stored, the credential stays.
C31_RefreshSuccessKept ==
  [][\A q \in 1..MaxReq : \A r \in 1..MaxReq :
       ( /\ reqs[q].kind = "refresh" /\ reqs[q].pc # "fail" /\ reqs'[q].pc = "fail"
         /\ reqs[r].kind = "refresh" /\ reqs[r].pc = "ok"
         /\ (r \in reqs[q].peers \/ q \in reqs[r].peers)
         /\ accessToken = reqs[r].got )
       => /\ accessToken' = accessToken
          /\ refreshToken' = refreshToken
          /\ tokenExpiresAt' = tokenExpiresAt]_vars

\* C32: a single window error event or a single unhandled rejection appends
\* exactly one ErrorInfo to the error log and at most one timestamp to the
\* monitor's window, however many listeners and handlers see it.
C32_OneRecordPerFailure ==
  [][(WindowError \/ UnhandledRejection)
      => (nLogged' = nLogged + 1 /\ errorCount' <= errorCount + 1)]_vars

\* C33: within one process instance reloadCount stays between 0 and
\* maxReloadAttempts, and it changes only by +1 in a recover() that reloads
\* the page or to 0 in resetReloadCount().
C33_AttemptCountRange ==
  /\ [](reloadCount \in 0..maxReloadAttempts)
  /\ [][(procs' = procs /\ reloadCount' # reloadCount)
         => \/ /\ reloadCount' = reloadCount + 1
               /\ lastReloadTime' = now
               /\ navPending'
               /\ reloadHist'[2].at = now
            \/ /\ reloadCount' = 0
               /\ lastReloadTime' = 0
               /\ sessAttempt' = NoItem]_vars

\* C33 witness: one process instance has reloaded maxReloadAttempts times.
C33_Witness ==
  /\ procs = 1
  /\ reloadCount = maxReloadAttempts
  /\ "maxAttempts" \in diagEmitted
  /\ now - lastReloadTime >= reloadCooldown

\* C34: canRecover() agrees with recover(): in every budget state and at
\* every instant, canRecover() is true exactly when recover() called at that
\* instant would call window.location.reload(); canRecover() reads the two
\* fields and the clock and writes nothing.
C34_CanRecoverAgrees ==
  /\ canRecover(Rec) <=> recover(Rec).calls > 0
  /\ ~canRecover(Rec) => /\ recover(Rec).rc = reloadCount
                          /\ recover(Rec).lrt = lastReloadTime

\* After two restarts, exactly one cooldown after the last one: canRecover()
\* is true on the boundary of the cooldown.
C34_Witness ==
  /\ reloadCount = 2
  /\ reloadHist[2].at = lastReloadTime
  /\ now - lastReloadTime = reloadCooldown
  /\ canRecover(Rec)

\* C35: the boundary schedules at most one automatic recovery per caught
\* render error: a timeout of the boundary is pending only while
\* recoveryAttempted is set on a mounted boundary showing its fallback, and
\* one is set only by a step that catches a render error with none pending;
\* the boundary restarts the page only through a pending timeout that is due;
\* a manual reset or an unmount cancels a scheduled recovery: after
\* handleReset no restart that was scheduled before it is still pending, so
\* none fires, and the budget is reset.
C35_ResetCancels ==
  /\ [](ebTimer # NoItem => ebMounted /\ ebHasError /\ ebAttempted)
  /\ [][(ebTimer' # NoItem /\ ebTimer' # ebTimer)
         => /\ ebTimer = NoItem
            /\ ~ebHasError /\ ebHasError'
            /\ ebTimer' = now + boundaryDelay]_vars
  /\ [][(reloadCount' > reloadCount /\ reloadHist'[2].path = "boundary")
         => ebTimer # NoItem /\ ebTimer <= now /\ ebMounted /\ ebHasError]_vars
  /\ [][Unmount => ebTimer' = NoItem]_vars
  /\ [][HandleReset
         => /\ ebTimer' = NoItem
            /\ timers' = <<>>
            /\ reloadCount' = 0 /\ lastReloadTime' = 0
            /\ sessAttempt' = NoItem /\ sessTime' = NoItem]_vars

====
